---- MODULE Spec2Model ----
(***************************************************************************)
(* LanguageRenderer (AGI_Evolutive/language/renderer.py): the ornament     *)
(* selection of render_reply, its cooldown ledger, the voice decoration    *)
(* and the decision recorder.                                              *)
(*                                                                         *)
(* Encoding.                                                               *)
(*  - A Python str is a sequence of characters, each character a one       *)
(*    character TLA+ string; characters outside ASCII are written by code  *)
(*    point ("U+00E9").  "" is << >>.                                      *)
(*  - A Python dict is a function whose domain holds the keys present; a   *)
(*    d.get(k) on an absent key and on a key bound to None behave alike in *)
(*    every place of the source, so None values are modelled as absence.   *)
(*  - Floats are fixed point: cooldown levels, confidences and style       *)
(*    traits in hundredths (2.0 is 200, 0.34 is 34), the random draw and   *)
(*    the attempt probability in millionths.  Relevance scores are exact   *)
(*    fractions [num, den] compared by cross multiplication.               *)
(***************************************************************************)
EXTENDS Integers, Sequences, FiniteSets, TLC

VARIABLES
    _cooldown,   \* self._cooldown: kind -> suppression level (hundredths)
    _last_used,  \* self._last_used: kind -> last snippet text used
    pc,          \* position of the caller: "idle", "called", "returned"
    args,        \* the arguments and collaborators' answers of the call in progress
    ret,         \* what the call returned and did (out, ornaments, memory writes, raised:
                 \* an exception reached the caller and out is no text), and
                 \* history: the values of emitted and of the trails' lengths it began with
    emitted,     \* history: kind -> text of the last ornament of that kind in an output
    trail,       \* history: kind -> levels after each call since the kind's last emission
    calls,       \* the calls of unserialized threads: thread -> position, arguments, locals
    raced,       \* history: two calls of unserialized threads have been in progress at once
    finished     \* history: calls of unserialized threads that returned without a past
                 \* link since the last past link was appended

vars == <<_cooldown, _last_used, pc, args, ret, emitted, trail, calls, raced, finished>>

Kinds == {"past", "colloc"}

(***************************************************************************)
(* Bounds of the model.                                                    *)
(***************************************************************************)
\* Longest recorded run of levels since a kind's last emission.
MaxTrail == 7

(***************************************************************************)
(* Strings.                                                                *)
(***************************************************************************)
EmptyStr == << >>
EmptyDict == << >>

Max(a, b) == IF a >= b THEN a ELSE b

Get(d, k, default) == IF k \in DOMAIN d THEN d[k] ELSE default

AsciiLower == {"a", "b", "c", "d", "e", "f", "g", "h", "i", "j", "k", "l", "m",
               "n", "o", "p", "q", "r", "s", "t", "u", "v", "w", "x", "y", "z"}

\* str.lower() on the letters that have an upper case in the alphabet used here.
ToLower == [A |-> "a", B |-> "b", C |-> "c", D |-> "d", E |-> "e", F |-> "f",
            G |-> "g", H |-> "h", I |-> "i", J |-> "j", K |-> "k", L |-> "l",
            M |-> "m", N |-> "n", O |-> "o", P |-> "p", Q |-> "q", R |-> "r",
            S |-> "s", T |-> "t", U |-> "u", V |-> "v", W |-> "w", X |-> "x",
            Y |-> "y", Z |-> "z"]

\* The characters of the range U+00C0..U+00FF that occur in the texts used.
Latin1Letters == {"U+00E9"}

Whitespace == {" ", "\n", "\t"}

LowerChar(c) == IF c \in DOMAIN ToLower THEN ToLower[c] ELSE c

Lower(s) == [i \in 1..Len(s) |-> LowerChar(s[i])]

\* The character class [A-Za-z] plus U+00C0..U+00FF of the token pattern.
Letters == AsciiLower \cup DOMAIN ToLower \cup Latin1Letters

IsLetter(c) == c \in Letters

RECURSIVE LStrip(_)
LStrip(s) == IF s # EmptyStr /\ Head(s) \in Whitespace THEN LStrip(Tail(s)) ELSE s

RECURSIVE RStrip(_)
RStrip(s) ==
    IF s # EmptyStr /\ s[Len(s)] \in Whitespace
    THEN RStrip(SubSeq(s, 1, Len(s) - 1))
    ELSE s

\* str.strip()
Strip(s) == RStrip(LStrip(s))

\* str.startswith(p)
StartsWith(s, p) == Len(s) >= Len(p) /\ SubSeq(s, 1, Len(p)) = p

\* str.endswith(p)
EndsWith(s, p) == Len(s) >= Len(p) /\ SubSeq(s, Len(s) - Len(p) + 1, Len(s)) = p

\* c in s
Contains(s, c) == \E i \in 1..Len(s) : s[i] = c

RECURSIVE Repeat(_, _)
Repeat(s, n) == IF n = 0 THEN EmptyStr ELSE s \o Repeat(s, n - 1)

(***************************************************************************)
(* Program constants.                                                      *)
(***************************************************************************)
\* THRESH["past_relevance"] = 0.25, in hundredths
PastRelevance == 25
\* THRESH["colloc_relevance"] = 0.20
CollocRelevance == 20
\* THRESH["conf_min"] = 0.55
ConfMin == 55
\* THRESH["chance_colloc"] = 0.35
ChanceColloc == 35
\* the 0.6 + 0.6 * conf of the attempt probability
TryOffset == 60
TrySlope == 60
\* _decrease_cooldowns: 0.34 per call
CooldownStep == 34
\* the level an emission sets: 2.0
CooldownSet == 200
\* _confidence's fallback: 0.6
DefaultConfidence == 60
\* _budget_chars
BudgetBase == 160
BudgetLongBonus == 80
BudgetConcisePenalty == 60
ConciseAbove == 70
DefaultConciseness == 60
\* the gate's floor on the budget
BudgetFloor == 60
\* _decorate_with_voice
FormalAbove == 75
DefaultFormality == 40
WarmAbove == 75
DefaultWarmth == 60
EmojiAbove == 60
DefaultEmoji == 20
\* moments[-8:]
MomentWindow == 8
\* {3,} of the token pattern
MinTokenLen == 3

FallbackText == <<"J", "e", " ", "t", "e", " ", "r", "U+00E9", "p", "o", "n", "d", "s",
    " ", "e", "n", " ", "t", "e", "n", "a", "n", "t", " ", "c", "o", "m", "p", "t",
    "e", " ", "d", "e", " ", "n", "o", "t", "r", "e", " ", "h", "i", "s", "t", "o",
    "r", "i", "q", "u", "e", ".">>

Greeting == <<"B", "o", "n", "j", "o", "u", "r", ",", " ">>

GreetBonjour == <<"b", "o", "n", "j", "o", "u", "r">>

GreetBonsoir == <<"b", "o", "n", "s", "o", "i", "r">>

WarmClosing == <<" ", "(", "j", "e", " ", "r", "e", "s", "t", "e", " ", "d", "i", "s",
    "p", "o", " ", "s", "i", " ", "b", "e", "s", "o", "i", "n", ")">>

EmojiPrefix == <<"U+1F642", " ">>

PastMarker == <<"\n", "\n", "U+21AA", " ", "E", "n", " ", "l", "i", "e", "n", " ", ":",
    " ">>

CollocOpen == <<"\n", "\n", "(">>

CollocClose == <<")">>

(***************************************************************************)
(* Input texts of the model.                                               *)
(***************************************************************************)
MsgExample == <<"I", "'", "m", " ", "s", "t", "i", "l", "l", " ", "s", "t", "r", "e",
    "s", "s", "e", "d", " ", "a", "b", "o", "u", "t", " ", "t", "h", "e", " ", "m",
    "o", "v", "e">>

MsgMove == <<"T", "h", "e", " ", "m", "o", "v", "e">>

MsgQuestion == <<"t", "h", "e", " ", "m", "o", "v", "e", "?">>

MomentExample == <<"w", "e", " ", "t", "a", "l", "k", "e", "d", " ", "a", "b", "o",
    "u", "t", " ", "y", "o", "u", "r", " ", "m", "o", "v", "e", " ", "l", "a", "s",
    "t", " ", "w", "e", "e", "k">>

MomentMove == <<"t", "h", "e", " ", "m", "o", "v", "e">>

MomentNow == <<"m", "o", "v", "e", " ", "n", "o", "w">>

MomentBack == <<"m", "o", "v", "e", " ", "t", "h", "e">>

MomentNowBack == <<"n", "o", "w", " ", "m", "o", "v", "e">>

MomentOther == <<"b", "i", "g", " ", "d", "e", "a", "l">>

MomentShort == <<"o", "k">>

MomentUnit == <<"t", "h", "e", " ", "m", "o", "v", "e", " ">>

CollocBig == <<"b", "i", "g", " ", "m", "o", "v", "e">>

CollocFresh == <<"f", "r", "e", "s", "h", " ", "s", "t", "a", "r", "t">>

CollocUnit == <<"b", "i", "g", " ", "m", "o", "v", "e", " ">>

TokMove == <<"m", "o", "v", "e">>

TextOk == <<" ", " ", "o", "k", " ">>

TextBlank == <<" ", " ", "\n">>

TextBonsoir == <<"B", "o", "n", "s", "o", "i", "r", "!">>

TextSure == <<"S", "u", "r", "e", ",", " ", "I", " ", "c", "a", "n", " ", "h", "e",
    "l", "p", ".">>

\* A moment of 90 characters: its snippet (104) fits a budget of 160, not of 100.
MomentLong == Repeat(MomentUnit, 10)

\* A collocation of 99 characters: its snippet (103) fits a budget of 160, not of 100.
CollocLong == Repeat(CollocUnit, 11)

\* Every text the model tokenizes; their token sets are computed once.
KnownTexts == {EmptyStr, MsgExample, MsgMove, MsgQuestion, MomentExample, MomentMove,
               MomentNow, MomentLong, CollocBig, CollocFresh, CollocLong, MomentBack,
               MomentNowBack, MomentOther, MomentShort}

(***************************************************************************)
(* _tokens: the set of maximal runs of letters, of length >= 3, of the     *)
(* lowercased text.                                                        *)
(***************************************************************************)
\* The maximal runs of letters of s, as <<first, last>>: what the greedy pattern
\* matches from left to right, before its length condition.
LetterRuns(s) ==
    {r \in (1..Len(s)) \X (1..Len(s)) :
        /\ r[1] <= r[2]
        /\ \A k \in r[1]..r[2] : IsLetter(s[k])
        /\ r[1] = 1 \/ ~IsLetter(s[r[1] - 1])
        /\ r[2] = Len(s) \/ ~IsLetter(s[r[2] + 1])}

Findall(s) ==
    {SubSeq(s, r[1], r[2]) : r \in {q \in LetterRuns(s) : q[2] - q[1] + 1 >= MinTokenLen}}

_tokens(s) == Findall(Lower(s))

\* The table is a constant: the singleton makes it a tabulated function, computed once.
TokenTable == CHOOSE f \in {[t \in KnownTexts |-> _tokens(t)]} : TRUE

\* _tokens through the table.
Tokens(s) == IF s \in KnownTexts THEN TokenTable[s] ELSE _tokens(s)

(***************************************************************************)
(* Scores: exact fractions.                                                *)
(***************************************************************************)
Frac(n, d) == [num |-> n, den |-> d]

Zero == Frac(0, 1)

\* a > b
FracGT(a, b) == a.num * b.den > b.num * a.den

\* a >= h / 100
FracGE100(a, h) == 100 * a.num >= h * a.den

(***************************************************************************)
(* _confidence                                                             *)
(***************************************************************************)
\* policy.kind: "ok" (confidence() answers policy.value), "no_policy" (arch has no
\* policy attribute), "no_confidence" (the policy has no confidence operation),
\* "raises" (confidence() raises).  env.arch = "none" (no self_model or no arch)
\* breaks the attribute chain before the policy is reached.
\* Mutant: the policy's answer taken as it is, with no fallback.
ConfidenceNoFallback(policy, env) == policy.value

_confidence(policy, env) ==
    IF env.arch # "none" /\ policy.kind = "ok" THEN policy.value ELSE DefaultConfidence

(***************************************************************************)
(* _budget_chars                                                           *)
(***************************************************************************)
\* (ctx.get("user_style") or {})
UserStyle(ctx) == Get(ctx, "user_style", EmptyDict)

\* user.get("prefers_long") is truthy
PrefersLongTruthy(ctx) ==
    "prefers_long" \in DOMAIN UserStyle(ctx) /\ UserStyle(ctx)["prefers_long"] = TRUE

\* user.get("prefers_long") is False
PrefersLongIsFalse(ctx) ==
    "prefers_long" \in DOMAIN UserStyle(ctx) /\ UserStyle(ctx)["prefers_long"] = FALSE

\* Mutant: the conciseness penalty taken twice.
BudgetPenaltyTwice(style, ctx) ==
    LET b1 == IF PrefersLongTruthy(ctx) THEN BudgetBase + BudgetLongBonus ELSE BudgetBase
        b2 == IF Get(style, "conciseness", DefaultConciseness) > ConciseAbove
              THEN b1 - 2 * BudgetConcisePenalty ELSE b1
    IN  Max(0, b2)

_budget_chars(style, ctx) ==
    LET b1 == IF PrefersLongTruthy(ctx) THEN BudgetBase + BudgetLongBonus ELSE BudgetBase
        b2 == IF Get(style, "conciseness", DefaultConciseness) > ConciseAbove
              THEN b1 - BudgetConcisePenalty ELSE b1
    IN  Max(0, b2)

(***************************************************************************)
(* _decrease_cooldowns                                                     *)
(***************************************************************************)
\* Mutant: the decay without its floor.
CoolNoFloor(level) == level - CooldownStep

\* Mutant: the decay applied twice per call.
CoolTwice(level) == Max(0, level - 2 * CooldownStep)

\* Mutant: a level cooled down in one call.
CoolAtOnce(level) == 0

Cool(level) == Max(0, level - CooldownStep)

_decrease_cooldowns(cd) == [k \in DOMAIN cd |-> Cool(cd[k])]

(***************************************************************************)
(* _pick_relevant_moment                                                   *)
(***************************************************************************)
\* ctx.get("key_moments") or []
KeyMoments(ctx) == Get(ctx, "key_moments", << >>)

\* moments[-8:]
LastMoments(moments) ==
    SubSeq(moments, Max(1, Len(moments) - MomentWindow + 1), Len(moments))

\* Mutant: the overlap over the message's tokens alone.
JaccardOverMessage(utoks, mtoks) ==
    Frac(Cardinality(utoks \cap mtoks), Max(1, Cardinality(utoks)))

Jaccard(utoks, mtoks) ==
    Frac(Cardinality(utoks \cap mtoks), Max(1, Cardinality(utoks \cup mtoks)))

\* Mutant: a candidate that equals the best so far replaces it.
BetterOrEqual(jacc, score) == ~FracGT(score, jacc)

\* jacc > score
Better(jacc, score) == FracGT(jacc, score)

RECURSIVE ScanMoments(_, _, _, _)
ScanMoments(utoks, window, i, best) ==
    IF i > Len(window) THEN best
    ELSE LET m == window[i]
             mtoks == Tokens(m)
             jacc == Jaccard(utoks, mtoks)
         IN  IF mtoks = {} THEN ScanMoments(utoks, window, i + 1, best)
             ELSE IF Better(jacc, best.score)
                  THEN ScanMoments(utoks, window, i + 1, [txt |-> m, score |-> jacc])
                  ELSE ScanMoments(utoks, window, i + 1, best)

_pick_relevant_moment(user_msg, ctx) ==
    IF KeyMoments(ctx) = << >> THEN [txt |-> EmptyStr, score |-> Zero]
    ELSE ScanMoments(Tokens(user_msg), LastMoments(KeyMoments(ctx)), 1,
                     [txt |-> EmptyStr, score |-> Zero])

(***************************************************************************)
(* _pick_collocation; cand is what lex.sample_collocation(novelty=0.3)     *)
(* answered ("" when it answered nothing).                                 *)
(***************************************************************************)
\* set(ctx.get("topics") or [])
Topics(ctx) == Get(ctx, "topics", {})

_pick_collocation(ctx, cand) ==
    IF cand = EmptyStr THEN [txt |-> EmptyStr, score |-> Zero]
    ELSE [txt |-> cand,
          score |-> Frac(Cardinality(Tokens(cand) \cap Topics(ctx)),
                         Max(1, Cardinality(Tokens(cand))))]

(***************************************************************************)
(* _decorate_with_voice                                                    *)
(***************************************************************************)
_decorate_with_voice(style, text) ==
    LET t1 == IF Get(style, "formality", DefaultFormality) > FormalAbove
                 /\ ~(StartsWith(Lower(text), GreetBonjour)
                      \/ StartsWith(Lower(text), GreetBonsoir))
              THEN Greeting \o text ELSE text
        t2 == IF Get(style, "warmth", DefaultWarmth) > WarmAbove /\ ~EndsWith(t1, <<"!">>)
              THEN t1 \o WarmClosing ELSE t1
    IN  IF Get(style, "emoji", DefaultEmoji) > EmojiAbove THEN EmojiPrefix \o t2 ELSE t2

(***************************************************************************)
(* render_reply: the gate evaluator.                                       *)
(***************************************************************************)
\* Mutant: the base without the fallback sentence.
BaseNoFallback(semantics) == Strip(Get(semantics, "text", EmptyStr))

\* (semantics.get("text") or "").strip() or the fallback sentence
Base(semantics) ==
    LET t == Strip(Get(semantics, "text", EmptyStr))
    IN  IF t = EmptyStr THEN FallbackText ELSE t

\* ctx.get("last_message") or ""
LastMessage(ctx) == Get(ctx, "last_message", EmptyStr)

\* "?" in (ctx.get("last_message") or "")
IsDirectQuestion(ctx) == Contains(LastMessage(ctx), "?")

\* Mutant: the gate without the veto of an explicit prefers_long = False.
GateClosedNoVeto(conf, budget, ctx) == conf < ConfMin \/ budget < BudgetFloor

\* Mutant: a length preference that is not stated closes the gate as False does.
GateClosedUnlessLong(conf, budget, ctx) ==
    conf < ConfMin \/ budget < BudgetFloor \/ ~PrefersLongTruthy(ctx)

\* The global short-circuit.
GateClosed(conf, budget, ctx) ==
    conf < ConfMin \/ budget < BudgetFloor \/ PrefersLongIsFalse(ctx)

\* Mutant: eligibility without the comparison with the last text used.
UsePastNoRepeatGuard(past, cd, lu, is_direct_question) ==
    /\ past.txt # EmptyStr
    /\ FracGE100(past.score, PastRelevance)
    /\ cd["past"] <= 0
    /\ ~is_direct_question

\* Mutant: eligibility without the cooldown.
UsePastNoCooldown(past, cd, lu, is_direct_question) ==
    /\ past.txt # EmptyStr
    /\ FracGE100(past.score, PastRelevance)
    /\ past.txt # lu["past"]
    /\ ~is_direct_question

\* Mutant: eligibility without the direct-question veto.
UsePastNoQuestionVeto(past, cd, lu, is_direct_question) ==
    /\ past.txt # EmptyStr
    /\ FracGE100(past.score, PastRelevance)
    /\ cd["past"] <= 0
    /\ past.txt # lu["past"]

UsePast(past, cd, lu, is_direct_question) ==
    /\ past.txt # EmptyStr
    /\ FracGE100(past.score, PastRelevance)
    /\ cd["past"] <= 0
    /\ past.txt # lu["past"]
    /\ ~is_direct_question

\* THRESH["chance_colloc"] * (0.6 + 0.6 * conf), in millionths
PTry(conf) == ChanceColloc * (TryOffset * 100 + TrySlope * conf)

\* draw is what random.random() answered, in millionths
UseColloc(colloc, draw, conf, cd, lu) ==
    /\ colloc.txt # EmptyStr
    /\ draw < PTry(conf)
    /\ FracGE100(colloc.score, CollocRelevance)
    /\ cd["colloc"] <= 0
    /\ colloc.txt # lu["colloc"]

PastSnippet(txt) == PastMarker \o txt

CollocSnippet(txt) == CollocOpen \o txt \o CollocClose

\* len(snippet) <= budget
\* Mutant: a snippet appended whatever its length.
FitsAnyBudget(snippet, budget) == TRUE

Fits(snippet, budget) == Len(snippet) <= budget

\* Mutant: the ledger written whether or not the snippet was appended.
MarkAlways(taken, new, old) == new

\* The ledger entry of a kind after its branch: written when the snippet is appended.
Mark(taken, new, old) == IF taken THEN new ELSE old

\* Mutant: no return after the past link.
FallsThroughAfterPast(past_taken) == FALSE

\* The "return out" that follows an accepted past link.
ReturnsAfterPast(past_taken) == past_taken

(***************************************************************************)
(* render_reply: the decision recorder.  A rule is [form, data, methods]:  *)
(* form "dict" (data is the dict) or "object" (data is what to_dict()      *)
(* answers), methods the rule's operations among to_dict and register_use. *)
(* env is the state of the collaborators: arch "ok", "none" (no            *)
(* self_model or no arch) or "no_memory"; has_update_memory; fail, the     *)
(* operation that raises when reached ("none" when nothing does): to_dict, *)
(* to_dict_second (to_dict raises when called after register_use), import  *)
(* (of ContextBuilder), build, add_memory, register_use, update_memory.    *)
(* The recorder's result is [writes, uses, raised]: the records written to *)
(* the memory store, the number of register_use calls that completed, and  *)
(* whether an exception leaves it.                                         *)
(***************************************************************************)
\* bool(rule_obj)
Truthy(rule) == rule.form = "object" \/ rule.data # EmptyDict

\* semantics.get("rule") is used
FromRuleKey(semantics) == "rule" \in DOMAIN semantics /\ Truthy(semantics["rule"])

\* rule_obj is not None
RulePresent(semantics) ==
    FromRuleKey(semantics) \/ "interaction_rule" \in DOMAIN semantics

RuleObj(semantics) ==
    IF FromRuleKey(semantics) THEN semantics["rule"] ELSE semantics["interaction_rule"]

NoWrites == [writes |-> << >>, uses |-> 0, raised |-> FALSE]

\* An exception raised after these writes and uses.
Raises(writes, uses) == [writes |-> writes, uses |-> uses, raised |-> TRUE]

TraceRecord(rule_id, rule_dict) ==
    [op |-> "add_memory", kind |-> "decision_trace", rule_id |-> rule_id,
     tactic |-> Get(rule_dict, "tactic", "None")]

PayloadRecord(env, payload) ==
    [op |-> IF env.has_update_memory THEN "update_memory" ELSE "add_memory",
     kind |-> "rule", rule_id |-> Get(payload, "id", ""),
     tactic |-> Get(payload, "tactic", "None")]

\* Mutant: an except clause that lets the exception through.
Propagate(rec) == rec

\* The inner "except Exception: pass".
InnerExcept(rec) == [rec EXCEPT !.raised = FALSE]

\* The outer "except Exception: pass".
OuterExcept(rec) == [rec EXCEPT !.raised = FALSE]

\* The body of the inner try: register_use, then the payload's persistence.
RegisterUseBody(rule, env, trace) ==
    IF env.fail = "register_use" THEN Raises(<<trace>>, 0)
    ELSE IF "to_dict" \in rule.methods /\ env.fail = "to_dict_second"
    THEN Raises(<<trace>>, 1)
    ELSE IF rule.data = EmptyDict
    THEN [writes |-> <<trace>>, uses |-> 1, raised |-> FALSE]
    ELSE IF env.fail = "update_memory" /\ env.has_update_memory
    THEN Raises(<<trace>>, 1)
    ELSE [writes |-> <<trace, PayloadRecord(env, rule.data)>>, uses |-> 1,
          raised |-> FALSE]

\* The trace is written; then the inner try, for a rule that registers its uses.
RegisterUse(rule, env, trace) ==
    IF "register_use" \notin rule.methods
    THEN [writes |-> <<trace>>, uses |-> 0, raised |-> FALSE]
    ELSE InnerExcept(RegisterUseBody(rule, env, trace))

\* The body of the outer try.
RecordBody(semantics, env) ==
    IF ~RulePresent(semantics) THEN NoWrites
    ELSE LET rule == RuleObj(semantics)
             has_dict == "to_dict" \in rule.methods \/ rule.form = "dict"
             rule_id == IF has_dict THEN Get(rule.data, "id", "") ELSE ""
         IN  IF "to_dict" \in rule.methods /\ env.fail = "to_dict" THEN Raises(<< >>, 0)
             ELSE IF rule_id = "" THEN NoWrites
             ELSE IF env.fail = "import" THEN Raises(<< >>, 0)
             ELSE IF env.arch # "ok" THEN NoWrites
             ELSE IF env.fail \in {"build", "add_memory"} THEN Raises(<< >>, 0)
             ELSE RegisterUse(rule, env, TraceRecord(rule_id, rule.data))

RecordDecision(semantics, env) == OuterExcept(RecordBody(semantics, env))

(***************************************************************************)
(* render_reply as a function of the ledger and of the call's inputs.      *)
(***************************************************************************)
Render(cd0, lu, a) ==
    LET cd == _decrease_cooldowns(cd0)
        base == Base(a.semantics)
        conf == _confidence(a.policy, a.env)
        budget == _budget_chars(a.style, a.ctx)
        is_direct_question == IsDirectQuestion(a.ctx)
        plain == _decorate_with_voice(a.style, base)
        past == _pick_relevant_moment(LastMessage(a.ctx), a.ctx)
        use_past == UsePast(past, cd, lu, is_direct_question)
        colloc == _pick_collocation(a.ctx, a.sample)
        use_colloc == UseColloc(colloc, a.draw, conf, cd, lu)
        past_taken == use_past /\ Fits(PastSnippet(past.txt), budget)
        early == ReturnsAfterPast(past_taken)
        colloc_taken == ~early /\ use_colloc /\ Fits(CollocSnippet(colloc.txt), budget)
        rec == IF early THEN NoWrites ELSE RecordDecision(a.semantics, a.env)
    IN  IF GateClosed(conf, budget, a.ctx)
        THEN [out |-> plain, cooldown |-> cd, last_used |-> lu, ornaments |-> << >>,
              writes |-> << >>, uses |-> 0, raised |-> FALSE]
        ELSE [out |-> IF rec.raised THEN EmptyStr
                      ELSE plain
                           \o (IF past_taken THEN PastSnippet(past.txt) ELSE EmptyStr)
                           \o (IF colloc_taken THEN CollocSnippet(colloc.txt)
                               ELSE EmptyStr),
              cooldown |-> [past |-> Mark(past_taken, CooldownSet, cd["past"]),
                            colloc |-> Mark(colloc_taken, CooldownSet, cd["colloc"])],
              last_used |-> [past |-> Mark(past_taken, past.txt, lu["past"]),
                             colloc |-> Mark(colloc_taken, colloc.txt, lu["colloc"])],
              ornaments |-> (IF past_taken THEN <<[kind |-> "past", txt |-> past.txt]>>
                             ELSE << >>)
                            \o (IF colloc_taken
                                THEN <<[kind |-> "colloc", txt |-> colloc.txt]>>
                                ELSE << >>),
              writes |-> rec.writes, uses |-> rec.uses, raised |-> rec.raised]

(***************************************************************************)
(* The calls the model makes.                                              *)
(***************************************************************************)
MkArgs(sem, ctx, style, policy, sample, draw, env) ==
    [semantics |-> sem, ctx |-> ctx, style |-> style, policy |-> policy,
     sample |-> sample, draw |-> draw, env |-> env]

PolicyOk(v) == [kind |-> "ok", value |-> v]

PolicyBroken(k) == [kind |-> k, value |-> 0]

EnvOk == [arch |-> "ok", has_update_memory |-> TRUE, fail |-> "none"]

SemOk == "text" :> TextOk

TopicsMove == "topics" :> {TokMove}

StyleConcise == "conciseness" :> 80

\* random.random() answers, in millionths: 0.1 is below every attempt probability
\* (0.21 to 0.42), 0.9 above every one.
Draws == {100000, 900000}

DrawLow == CHOOSE d \in Draws : \A e \in Draws : d <= e

UserStyleParts == {EmptyDict, "user_style" :> [prefers_long |-> TRUE],
                   "user_style" :> [prefers_long |-> FALSE]}

\* Gate and selection: every precondition of the gate against every candidate.
ArgsGate ==
    {MkArgs(SemOk, us @@ msg @@ km @@ TopicsMove, EmptyDict, PolicyOk(conf), sample, draw,
            EnvOk) :
        us \in UserStyleParts,
        msg \in {"last_message" :> MsgMove, "last_message" :> MsgQuestion},
        km \in {"key_moments" :> <<MomentMove>>, "key_moments" :> <<MomentLong>>},
        conf \in {54, 80},
        sample \in {EmptyStr, CollocBig, CollocLong},
        draw \in Draws}

\* Budget: snippets that fit 160 and more, and not 100.
ArgsBudget ==
    {MkArgs(SemOk, us @@ msg @@ km @@ TopicsMove, style, PolicyBroken("raises"), sample,
            DrawLow, EnvOk) :
        us \in {EmptyDict, "user_style" :> EmptyDict,
                "user_style" :> [prefers_long |-> TRUE]},
        msg \in {"last_message" :> MsgMove, EmptyDict},
        km \in {"key_moments" :> <<MomentNow, MomentLong>>},
        style \in {EmptyDict, StyleConcise},
        sample \in {EmptyStr, CollocLong, CollocFresh, CollocBig}}

\* A call with a past candidate only, with a collocation candidate only, with none.
PastCandidate == [km |-> "key_moments" :> <<MomentMove>>, sample |-> EmptyStr]

CollocCandidate == [km |-> EmptyDict, sample |-> CollocBig]

NoCandidate == [km |-> EmptyDict, sample |-> EmptyStr]

\* Voice: every text against every decoration.
ArgsVoice ==
    {MkArgs(sem, "last_message" :> MsgMove @@ cand.km @@ TopicsMove,
            f @@ w @@ e, PolicyOk(80), cand.sample, DrawLow, EnvOk) :
        sem \in {EmptyDict, "text" :> TextBlank, "text" :> TextOk, "text" :> TextBonsoir,
                 "text" :> TextSure},
        cand \in {PastCandidate, CollocCandidate},
        f \in {EmptyDict, "formality" :> 80},
        w \in {EmptyDict, "warmth" :> 80},
        e \in {EmptyDict, "emoji" :> 70}}

\* The worked example of the specification.
ArgsExample ==
    {MkArgs(SemOk, "last_message" :> MsgExample @@ km @@ TopicsMove, EmptyDict,
            PolicyOk(80), sample, DrawLow, EnvOk) :
        km \in {"key_moments" :> <<MomentExample>>,
                "key_moments" :> <<MomentExample, MomentMove>>},
        sample \in {EmptyStr, CollocBig}}

RuleData == ("id" :> "r1") @@ ("tactic" :> "mirror")

RuleDict == [form |-> "dict", data |-> RuleData, methods |-> {}]

RuleDictNoId == [form |-> "dict", data |-> "tactic" :> "mirror", methods |-> {}]

RuleEmptyDict == [form |-> "dict", data |-> EmptyDict, methods |-> {}]

RuleObject == [form |-> "object", data |-> RuleData, methods |-> {"to_dict", "register_use"}]

RuleOpaque == [form |-> "object", data |-> RuleData, methods |-> {}]

RuleSemantics ==
    {SemOk @@ r : r \in {"rule" :> RuleDict, "rule" :> RuleObject, "rule" :> RuleDictNoId,
                         "rule" :> RuleOpaque, "interaction_rule" :> RuleObject,
                         ("rule" :> RuleEmptyDict) @@ ("interaction_rule" :> RuleDict)}}

Envs ==
    {EnvOk, [EnvOk EXCEPT !.has_update_memory = FALSE], [EnvOk EXCEPT !.arch = "none"],
     [EnvOk EXCEPT !.arch = "no_memory"]}
    \cup {[EnvOk EXCEPT !.fail = f] :
            f \in {"to_dict", "to_dict_second", "import", "build", "add_memory",
                   "register_use", "update_memory"}}

\* Recorder: every rule and store against the four outcomes of the gate.
ArgsRecord ==
    {MkArgs(sem, "last_message" :> MsgMove @@ o.cand.km @@ TopicsMove, EmptyDict,
            PolicyOk(o.conf), o.cand.sample, DrawLow, env) :
        sem \in RuleSemantics,
        o \in {[cand |-> PastCandidate, conf |-> 80], [cand |-> CollocCandidate, conf |-> 80],
               [cand |-> NoCandidate, conf |-> 80], [cand |-> PastCandidate, conf |-> 54]},
        env \in Envs}

\* random.random() answers on either side of the attempt probability at
\* confidence 0.6, which is 0.336: below it and above the 0.3339 of confidence 0.59,
\* above it and below the 0.3381 of confidence 0.61.
DrawsAroundDefault == {335000, 337000}

\* Confidence: every way the policy can be out of reach, and a policy that answers.
ArgsConfidence ==
    {MkArgs(SemOk, "last_message" :> MsgMove @@ cand.km @@ TopicsMove, EmptyDict,
            policy, cand.sample, draw, env) :
        policy \in {PolicyBroken("no_policy"), PolicyBroken("no_confidence"),
                    PolicyBroken("raises"), PolicyOk(90)},
        cand \in {PastCandidate, CollocCandidate},
        draw \in DrawsAroundDefault,
        env \in {EnvOk, [EnvOk EXCEPT !.arch = "none"]}}

Args ==
    ArgsGate \cup ArgsBudget \cup ArgsVoice \cup ArgsExample \cup ArgsRecord
    \cup ArgsConfidence

(***************************************************************************)
(* The state machine: one engine instance, its caller making serialized    *)
(* calls.                                                                  *)
(***************************************************************************)
NoArgs == EmptyDict

NoRet == EmptyDict

\* The threads that call the engine without serialization.
Threads == {"t1", "t2"}

\* A thread outside render_reply.
IdleCall ==
    [pc |-> "idle", args |-> NoArgs, i |-> 0, level |-> 0, use_past |-> FALSE,
     use_colloc |-> FALSE, ornaments |-> << >>, repeated |-> FALSE, unspaced |-> FALSE]

\* __init__
Init ==
    /\ _cooldown = [past |-> 0, colloc |-> 0]
    /\ _last_used = [past |-> EmptyStr, colloc |-> EmptyStr]
    /\ pc = "idle"
    /\ args = NoArgs
    /\ ret = NoRet
    /\ emitted = [k \in Kinds |-> EmptyStr]
    /\ trail = [k \in Kinds |-> <<0>>]
    /\ calls = [t \in Threads |-> IdleCall]
    /\ raced = FALSE
    /\ finished = 0

\* The caller enters render_reply(semantics, ctx) with the collaborators in some state.
Call(a) ==
    /\ pc = "idle"
    /\ pc' = "called"
    /\ args' = a
    /\ UNCHANGED <<_cooldown, _last_used, ret, emitted, trail, calls, raced, finished>>

\* The text of the ornament of kind k in a result, "" when it has none.
OrnamentOf(r, k) ==
    IF \E i \in 1..Len(r.ornaments) : r.ornaments[i].kind = k
    THEN (CHOOSE o \in {r.ornaments[i] : i \in 1..Len(r.ornaments)} : o.kind = k).txt
    ELSE EmptyStr

\* The whole of render_reply.
render_reply ==
    /\ pc = "called"
    /\ LET r == Render(_cooldown, _last_used, args)
       IN  /\ _cooldown' = r.cooldown
           /\ _last_used' = r.last_used
           /\ ret' = [out |-> r.out, ornaments |-> r.ornaments, writes |-> r.writes,
                      uses |-> r.uses, raised |-> r.raised, before |-> emitted,
                      since |-> [k \in Kinds |-> Len(trail[k]) - 1]]
           /\ emitted' = [k \in Kinds |->
                            IF OrnamentOf(r, k) # EmptyStr THEN OrnamentOf(r, k)
                            ELSE emitted[k]]
           /\ trail' = [k \in Kinds |->
                          IF OrnamentOf(r, k) # EmptyStr THEN <<r.cooldown[k]>>
                          ELSE IF Len(trail[k]) < MaxTrail
                               THEN Append(trail[k], r.cooldown[k])
                               ELSE trail[k]]
    /\ pc' = "returned"
    /\ UNCHANGED <<args, calls, raced, finished>>

\* The caller takes the reply.
Return ==
    /\ pc = "returned"
    /\ pc' = "idle"
    /\ args' = NoArgs
    /\ ret' = NoRet
    /\ UNCHANGED <<_cooldown, _last_used, emitted, trail, calls, raced, finished>>

Next ==
    \/ \E a \in Args : Call(a)
    \/ render_reply
    \/ Return

Spec == Init /\ [][Next]_vars

(***************************************************************************)
(* The calls that differ by key_moments alone: lists of up to MaxMoments   *)
(* entries, one more than the window, whose entries are a filler, a text   *)
(* sharing no token with the message, but for the first one, which may be  *)
(* MomentMove, and for at most two more.  The entries score 1 (MomentMove, *)
(* MomentBack), 1/3 (MomentNow, MomentNowBack), or have no token           *)
(* (MomentShort).  The message ends with "?": the candidate is chosen and  *)
(* no link appended, so every call finds the ledger as it was constructed. *)
(***************************************************************************)
MaxMoments == 9

PickTexts == {MomentMove, MomentBack, MomentNow, MomentNowBack, MomentShort}

MomentLists ==
    UNION {{[i \in 1..n |-> IF i = p THEN x ELSE IF i = q THEN y
                            ELSE IF i = 1 THEN head ELSE MomentOther] :
                p \in 0..n, q \in 0..n, x \in PickTexts, y \in PickTexts,
                head \in {MomentOther, MomentMove}} :
           n \in 0..MaxMoments}

ArgsPick ==
    {MkArgs(SemOk, "last_message" :> MsgQuestion @@ km, EmptyDict, PolicyOk(80), EmptyStr,
            DrawLow, EnvOk) :
        km \in {EmptyDict} \cup {"key_moments" :> ms : ms \in MomentLists}}

NextPick ==
    \/ \E a \in ArgsPick : Call(a)
    \/ render_reply
    \/ Return

SpecPick == Init /\ [][NextPick]_vars

(***************************************************************************)
(* The same engine called by two threads with no serialization.  The       *)
(* interpreter may switch threads between any two reads or writes of the   *)
(* engine's dictionaries, so each read and each write of _cooldown and     *)
(* _last_used is a step; what a call computes on its own arguments and     *)
(* locals goes with the read or write before it.  A thread's locals: i,    *)
(* the position of the decay loop; level, the level it has just read;      *)
(* use_past and use_colloc; ornaments, the snippets appended to its out;   *)
(* and, history, repeated and unspaced: the past link it appended has the  *)
(* text of the last one emitted, and comes fewer returned calls after it   *)
(* than serialized calls leave between two past links.                     *)
(***************************************************************************)
\* for k in self._cooldown: the dictionary's order
KindOrder == <<"past", "colloc">>

\* The calls that do not emit a kind between two serialized emissions of it: the
\* level set to 2.0 is above 0 after 5 decays of 0.34 and at 0 after the 6th.
SpacedAfter == (CooldownSet - 1) \div CooldownStep

\* A past text with a collocation behind it, and a second past text.
ArgsThreads ==
    {MkArgs(SemOk, "last_message" :> MsgMove @@ cand.km @@ TopicsMove, EmptyDict,
            PolicyOk(80), cand.sample, DrawLow, EnvOk) :
        cand \in {[km |-> "key_moments" :> <<MomentMove>>, sample |-> CollocBig],
                  [km |-> "key_moments" :> <<MomentNow>>, sample |-> EmptyStr]}}

Step(t, c) ==
    /\ calls' = [calls EXCEPT ![t] = c]
    /\ UNCHANGED <<pc, args, ret, trail>>

\* A thread enters render_reply.
Start(t, a) ==
    /\ calls[t].pc = "idle"
    /\ Step(t, [IdleCall EXCEPT !.pc = "decay_read", !.args = a, !.i = 1])
    /\ raced' = (raced \/ \E u \in Threads \ {t} : calls[u].pc # "idle")
    /\ UNCHANGED <<_cooldown, _last_used, emitted, finished>>

\* _decrease_cooldowns: the read of self._cooldown[k]
DecayRead(t) ==
    /\ calls[t].pc = "decay_read"
    /\ Step(t, [calls[t] EXCEPT !.pc = "decay_write",
                                !.level = _cooldown[KindOrder[calls[t].i]]])
    /\ UNCHANGED <<_cooldown, _last_used, emitted, raced, finished>>

\* _decrease_cooldowns: the write of self._cooldown[k]; after the last kind, the
\* base, the confidence, the budget and the gate.
DecayWrite(t) ==
    LET c == calls[t]
        a == c.args
        closed == GateClosed(_confidence(a.policy, a.env), _budget_chars(a.style, a.ctx),
                             a.ctx)
    IN  /\ c.pc = "decay_write"
        /\ _cooldown' = [_cooldown EXCEPT ![KindOrder[c.i]] = Cool(c.level)]
        /\ Step(t, IF c.i < Len(KindOrder)
                   THEN [c EXCEPT !.pc = "decay_read", !.i = c.i + 1, !.level = 0]
                   ELSE [c EXCEPT !.pc = IF closed THEN "done" ELSE "past_level",
                                  !.i = 0, !.level = 0])
        /\ UNCHANGED <<_last_used, emitted, raced, finished>>

\* use_past: the read of self._cooldown["past"]
PastLevel(t) ==
    /\ calls[t].pc = "past_level"
    /\ Step(t, [calls[t] EXCEPT !.pc = "past_last", !.level = _cooldown["past"]])
    /\ UNCHANGED <<_cooldown, _last_used, emitted, raced, finished>>

\* use_past: the read of self._last_used["past"]
PastLast(t) ==
    LET c == calls[t]
        a == c.args
        past == _pick_relevant_moment(LastMessage(a.ctx), a.ctx)
    IN  /\ c.pc = "past_last"
        /\ Step(t, [c EXCEPT !.pc = "colloc_level", !.level = 0,
                             !.use_past = UsePast(past, "past" :> c.level, _last_used,
                                                  IsDirectQuestion(a.ctx))])
        /\ UNCHANGED <<_cooldown, _last_used, emitted, raced, finished>>

\* use_colloc: the read of self._cooldown["colloc"]
CollocLevel(t) ==
    /\ calls[t].pc = "colloc_level"
    /\ Step(t, [calls[t] EXCEPT !.pc = "colloc_last", !.level = _cooldown["colloc"]])
    /\ UNCHANGED <<_cooldown, _last_used, emitted, raced, finished>>

\* The snippets a call appends to its out, from its use_past and use_colloc.
Appended(c) ==
    LET a == c.args
        budget == _budget_chars(a.style, a.ctx)
        past == _pick_relevant_moment(LastMessage(a.ctx), a.ctx)
        colloc == _pick_collocation(a.ctx, a.sample)
        past_taken == c.use_past /\ Fits(PastSnippet(past.txt), budget)
        colloc_taken == /\ ~ReturnsAfterPast(past_taken)
                        /\ c.use_colloc
                        /\ Fits(CollocSnippet(colloc.txt), budget)
    IN  (IF past_taken THEN <<[kind |-> "past", txt |-> past.txt]>> ELSE << >>)
        \o (IF colloc_taken THEN <<[kind |-> "colloc", txt |-> colloc.txt]>> ELSE << >>)

\* The position of a call that has left to write the ledger of the kinds in ks.
WritePc(c, ks) ==
    IF "past" \in ks /\ OrnamentOf(c, "past") # EmptyStr THEN "past_set_level"
    ELSE IF "colloc" \in ks /\ OrnamentOf(c, "colloc") # EmptyStr THEN "colloc_set_level"
    ELSE "done"

\* use_colloc: the read of self._last_used["colloc"]; then the snippets appended
\* to out.
CollocLast(t) ==
    LET c == calls[t]
        a == c.args
        colloc == _pick_collocation(a.ctx, a.sample)
        d == [c EXCEPT !.level = 0,
                       !.use_colloc =
                           UseColloc(colloc, a.draw, _confidence(a.policy, a.env),
                                     "colloc" :> c.level, _last_used)]
        linked == OrnamentOf([ornaments |-> Appended(d)], "past")
        e == [d EXCEPT !.ornaments = Appended(d),
                       !.repeated = (linked # EmptyStr /\ linked = emitted["past"]),
                       !.unspaced = (/\ linked # EmptyStr
                                     /\ emitted["past"] # EmptyStr
                                     /\ finished < SpacedAfter)]
    IN  /\ c.pc = "colloc_last"
        /\ Step(t, [e EXCEPT !.pc = WritePc(e, Kinds)])
        /\ emitted' = [k \in Kinds |->
                         IF OrnamentOf(e, k) # EmptyStr THEN OrnamentOf(e, k)
                         ELSE emitted[k]]
        /\ finished' = IF OrnamentOf(e, "past") # EmptyStr THEN 0 ELSE finished
        /\ UNCHANGED <<_cooldown, _last_used, raced>>

\* self._cooldown["past"] = 2.0
PastSetLevel(t) ==
    /\ calls[t].pc = "past_set_level"
    /\ _cooldown' = [_cooldown EXCEPT !["past"] = CooldownSet]
    /\ Step(t, [calls[t] EXCEPT !.pc = "past_set_last"])
    /\ UNCHANGED <<_last_used, emitted, raced, finished>>

\* self._last_used["past"] = past_txt
PastSetLast(t) ==
    /\ calls[t].pc = "past_set_last"
    /\ _last_used' = [_last_used EXCEPT !["past"] = OrnamentOf(calls[t], "past")]
    /\ Step(t, [calls[t] EXCEPT !.pc = WritePc(calls[t], {"colloc"})])
    /\ UNCHANGED <<_cooldown, emitted, raced, finished>>

\* self._cooldown["colloc"] = 2.0
CollocSetLevel(t) ==
    /\ calls[t].pc = "colloc_set_level"
    /\ _cooldown' = [_cooldown EXCEPT !["colloc"] = CooldownSet]
    /\ Step(t, [calls[t] EXCEPT !.pc = "colloc_set_last"])
    /\ UNCHANGED <<_last_used, emitted, raced, finished>>

\* self._last_used["colloc"] = colloc_txt
CollocSetLast(t) ==
    /\ calls[t].pc = "colloc_set_last"
    /\ _last_used' = [_last_used EXCEPT !["colloc"] = OrnamentOf(calls[t], "colloc")]
    /\ Step(t, [calls[t] EXCEPT !.pc = "done"])
    /\ UNCHANGED <<_cooldown, emitted, raced, finished>>

\* The thread's caller takes the reply.
Finish(t) ==
    /\ calls[t].pc = "done"
    /\ Step(t, IdleCall)
    /\ finished' = IF OrnamentOf(calls[t], "past") # EmptyStr \/ finished = SpacedAfter
                   THEN finished ELSE finished + 1
    /\ UNCHANGED <<_cooldown, _last_used, emitted, raced>>

NextThreads ==
    \E t \in Threads :
        \/ \E a \in ArgsThreads : Start(t, a)
        \/ DecayRead(t)
        \/ DecayWrite(t)
        \/ PastLevel(t)
        \/ PastLast(t)
        \/ CollocLevel(t)
        \/ CollocLast(t)
        \/ PastSetLevel(t)
        \/ PastSetLast(t)
        \/ CollocSetLevel(t)
        \/ CollocSetLast(t)
        \/ Finish(t)

SpecThreads == Init /\ [][NextThreads]_vars

(***************************************************************************)
(* The call a state is about.  In a state with pc = "returned", args are   *)
(* the arguments of the call that has just run and ret is what it did; the *)
(* ledger is the ledger it left.                                           *)
(***************************************************************************)
Returned == pc = "returned"

Conf == _confidence(args.policy, args.env)

Budget == _budget_chars(args.style, args.ctx)

\* The voice-decorated base text of the call.
Plain == _decorate_with_voice(args.style, Base(args.semantics))

\* The call appended an ornament of kind k.
Emits(k) == \E i \in 1..Len(ret.ornaments) : ret.ornaments[i].kind = k

\* The past candidate of the call.
PastPick == _pick_relevant_moment(LastMessage(args.ctx), args.ctx)

\* The collocation candidate of the call.
CollocPick == _pick_collocation(args.ctx, args.sample)

\* The number of ornament blocks in a text: the places where a snippet's opening
\* (two line breaks, then the link glyph or a parenthesis) starts.
Blocks(text) ==
    Cardinality({i \in 1..(Len(text) - 2) :
                    /\ text[i] = "\n"
                    /\ text[i + 1] = "\n"
                    /\ text[i + 2] \in {PastMarker[3], CollocOpen[3]}})

\* The collocation of the call is relevant, drawn, off cooldown, new and fitting,
\* read in a returned state whose call left the collocation's ledger as it decayed.
CollocWasOpen ==
    /\ CollocPick.txt # EmptyStr
    /\ args.draw < PTry(Conf)
    /\ FracGE100(CollocPick.score, CollocRelevance)
    /\ _cooldown["colloc"] = 0
    /\ CollocPick.txt # _last_used["colloc"]
    /\ Len(CollocSnippet(CollocPick.txt)) <= Budget

(***************************************************************************)
(* C1.  Every call returns a text with at most one ornament block: a past  *)
(* link and a collocation are never both appended by one call, and no call *)
(* leaves both kinds at the level an emission sets.                        *)
(***************************************************************************)
C1_AtMostOneOrnament ==
    Returned =>
        /\ Len(ret.ornaments) <= 1
        /\ ~(Emits("past") /\ Emits("colloc"))
        /\ Blocks(ret.out) <= 1
        /\ Blocks(ret.out) = Len(ret.ornaments)
        /\ ~(_cooldown["past"] = CooldownSet /\ _cooldown["colloc"] = CooldownSet)

\* A call in which both candidates were eligible and fitting returned one block.
C1_Witness ==
    /\ Returned
    /\ Emits("past")
    /\ CollocWasOpen
    /\ Blocks(ret.out) = 1

(***************************************************************************)
(* C2.  A call made with confidence < 0.55, or with a budget < 60, or with *)
(* user_style.prefers_long explicitly False returns exactly the            *)
(* voice-decorated base text, with no ornament.                            *)
(***************************************************************************)
C2_GateClosedNoOrnament ==
    (Returned /\ (Conf < ConfMin \/ Budget < BudgetFloor
                  \/ ("user_style" \in DOMAIN args.ctx
                      /\ "prefers_long" \in DOMAIN args.ctx["user_style"]
                      /\ args.ctx["user_style"]["prefers_long"] = FALSE)))
    => (ret.out = Plain /\ ret.ornaments = << >> /\ Blocks(ret.out) = 0)

\* A call vetoed by prefers_long = False alone, its past candidate of relevance 1,
\* off cooldown and not the last one used.
C2_Witness ==
    /\ Returned
    /\ PrefersLongIsFalse(args.ctx)
    /\ Conf >= ConfMin
    /\ ~IsDirectQuestion(args.ctx)
    /\ PastPick.txt # EmptyStr
    /\ PastPick.score.num = PastPick.score.den
    /\ PastPick.txt # _last_used["past"]
    /\ _cooldown["past"] = 0
    /\ ret.out = Plain

(***************************************************************************)
(* C3.  Repetition guard: for each kind, the text of an ornament a call    *)
(* appends differs from the text of the previous ornament of that kind.    *)
(***************************************************************************)
C3_NoImmediateRepeat ==
    [][\A k \in Kinds :
          (pc = "called" /\ pc' = "returned" /\ OrnamentOf(ret', k) # EmptyStr)
          => OrnamentOf(ret', k) # emitted[k]]_vars

\* A call whose best past candidate, relevant and fitting, with the cooldown fully
\* decayed and no veto, was the past text emitted last: it appended no past link.
C3_Witness ==
    /\ Returned
    /\ ~GateClosed(Conf, Budget, args.ctx)
    /\ ~IsDirectQuestion(args.ctx)
    /\ PastPick.txt # EmptyStr
    /\ PastPick.txt = ret.before["past"]
    /\ FracGE100(PastPick.score, PastRelevance)
    /\ Len(PastSnippet(PastPick.txt)) <= Budget
    /\ ret.since["past"] >= 6
    /\ _cooldown["past"] = 0
    /\ ~Emits("past")

(***************************************************************************)
(* C4.  Cooldown spacing: a call that appends an ornament of a kind        *)
(* emitted before comes after at least 5 calls that did not emit the kind, *)
(* and from the 6th call after an emission on, the kind's level is 0 when  *)
(* eligibility is evaluated (the call leaves it at 0 or emits the kind).   *)
(***************************************************************************)
C4_CooldownSpacing ==
    \A k \in Kinds :
        (Returned /\ ret.before[k] # EmptyStr) =>
            /\ Emits(k) => ret.since[k] >= 5
            /\ ret.since[k] >= 5 => (Emits(k) \/ _cooldown[k] = 0)
            /\ ret.since[k] < 5 => _cooldown[k] > 0

\* The 6th call after an emission of each kind emits the kind again.
C4_Witness ==
    /\ Returned
    /\ ret.before["past"] # EmptyStr
    /\ ret.since["past"] = 5
    /\ Emits("past")

(***************************************************************************)
(* C5.  Cooldown decay: N calls that do not emit a kind take its level     *)
(* from its initial value to max(0, initial - 0.34 * N), whatever those    *)
(* calls do otherwise.                                                     *)
(***************************************************************************)
C5_MonotonicDecay ==
    \A k \in Kinds :
        /\ \A i \in 1..Len(trail[k]) : \A j \in i..Len(trail[k]) :
              trail[k][j] = Max(0, trail[k][i] - CooldownStep * (j - i))
        /\ Len(trail[k]) < MaxTrail => trail[k][Len(trail[k])] = _cooldown[k]

\* Three calls after a past link, the third one short-circuited by the gate and an
\* earlier one emitting a collocation: the past level is 2.0 - 3 * 0.34.
C5_Witness ==
    /\ Returned
    /\ GateClosed(Conf, Budget, args.ctx)
    /\ trail["past"] = <<CooldownSet, CooldownSet - CooldownStep,
                         CooldownSet - 2 * CooldownStep, CooldownSet - 3 * CooldownStep>>
    /\ _cooldown["past"] = CooldownSet - 3 * CooldownStep
    /\ Len(trail["colloc"]) < Len(trail["past"])
    /\ trail["colloc"][1] = CooldownSet

C7_PastLinkPriority ==
    [][(/\ pc = "called" /\ pc' = "returned"
        /\ ~GateClosed(Conf, Budget, args.ctx)
        /\ PastPick.txt # EmptyStr
        /\ FracGE100(PastPick.score, PastRelevance)
        /\ _cooldown["past"] <= CooldownStep
        /\ PastPick.txt # _last_used["past"]
        /\ ~IsDirectQuestion(args.ctx)
        /\ Len(PastSnippet(PastPick.txt)) <= Budget)
       => /\ ret'.ornaments = <<[kind |-> "past", txt |-> PastPick.txt]>>
          /\ ret'.out = Plain \o PastSnippet(PastPick.txt)
          /\ _cooldown'["past"] = CooldownSet
          /\ _last_used'["past"] = PastPick.txt
          /\ _cooldown'["colloc"] = Max(0, _cooldown["colloc"] - CooldownStep)
          /\ _last_used'["colloc"] = _last_used["colloc"]]_vars

\* A past link appended by a call whose collocation was eligible and fitting: the
\* collocation's ledger is as it was.
C7_Witness ==
    /\ Returned
    /\ ret.ornaments = <<[kind |-> "past", txt |-> PastPick.txt]>>
    /\ CollocWasOpen
    /\ _cooldown["past"] = CooldownSet
    /\ _last_used["colloc"] = ret.before["colloc"]

(***************************************************************************)
(* C8.  The returned text is never empty and starts with the               *)
(* voice-decorated base text: the stripped semantics.text, or the fallback *)
(* sentence when the text is absent or blank, between the optional         *)
(* greeting and emoji before it and the optional closing after it; what    *)
(* follows is nothing or one ornament snippet.                             *)
(***************************************************************************)
ExpectedBase ==
    IF "text" \in DOMAIN args.semantics /\ Strip(args.semantics["text"]) # EmptyStr
    THEN Strip(args.semantics["text"])
    ELSE FallbackText

DecoratedForms(base) ==
    {p \o base \o c : p \in {EmptyStr, Greeting, EmojiPrefix, EmojiPrefix \o Greeting},
                      c \in {EmptyStr, WarmClosing}}

C8_BasePrefix ==
    Returned =>
        /\ ret.out # EmptyStr
        /\ \E d \in DecoratedForms(ExpectedBase) :
              /\ d = Plain
              /\ StartsWith(ret.out, d)
              /\ \/ ret.out = d
                 \/ ret.out = d \o PastSnippet(OrnamentOf(ret, "past"))
                 \/ ret.out = d \o CollocSnippet(OrnamentOf(ret, "colloc"))

\* A blank text under a formal, warm, emoji voice, with a past link appended.
C8_Witness ==
    /\ Returned
    /\ "text" \in DOMAIN args.semantics
    /\ args.semantics["text"] = TextBlank
    /\ Plain = EmojiPrefix \o Greeting \o FallbackText \o WarmClosing
    /\ Emits("past")
    /\ Len(ret.out) > Len(Plain)

(***************************************************************************)
(* C9.  The worked example: key_moments = ["we talked about your move last *)
(* week"], last_message = "I'm still stressed about the move", both        *)
(* cooldowns at 0, nothing used before, confidence 0.8, budget 160.        *)
(***************************************************************************)
ExampleCall ==
    /\ Returned
    /\ KeyMoments(args.ctx) = <<MomentExample>>
    /\ LastMessage(args.ctx) = MsgExample
    /\ ret.before = [k \in Kinds |-> EmptyStr]
    /\ Conf = 80
    /\ Budget = 160

\* C9 as claimed: the score is >= 0.25, the past link is appended with its marker
\* and the past cooldown becomes 2.0.
C9_ExampleAppendsPastLink ==
    ExampleCall =>
        /\ FracGE100(PastPick.score, PastRelevance)
        /\ StartsWith(ret.out, Plain \o PastMarker)
        /\ OrnamentOf(ret, "past") = MomentExample
        /\ _cooldown["past"] = CooldownSet

\* C9 as amended: the two token sets share 2 tokens ("about", "move") of 9, the
\* score is 2/9 < 0.25, no past link is appended, the past cooldown stays 0 and no
\* past text is recorded.
C9_ExampleScoreBelowThreshold ==
    ExampleCall =>
        /\ 9 * PastPick.score.num = 2 * PastPick.score.den
        /\ ~FracGE100(PastPick.score, PastRelevance)
        /\ ~Emits("past")
        /\ \A i \in 1..Len(ret.out) : ret.out[i] # PastMarker[3]
        /\ _cooldown["past"] = 0
        /\ _last_used["past"] = EmptyStr

C9_Witness ==
    /\ ExampleCall
    /\ PastPick.txt = MomentExample
    /\ ret.out = Plain

(***************************************************************************)
(* C10.  Decision recording, as claimed: every call whose semantics carry  *)
(* a rule with a resolvable id, the memory store present and working,      *)
(* writes a decision_trace record, and then marks a rule that registers    *)
(* its uses as used and persists its payload, whatever the ornament        *)
(* outcome of the call.                                                    *)
(***************************************************************************)
ResolvableRule ==
    /\ RulePresent(args.semantics)
    /\ "to_dict" \in RuleObj(args.semantics).methods \/ RuleObj(args.semantics).form = "dict"
    /\ Get(RuleObj(args.semantics).data, "id", "") # ""

MemoryWorking == args.env.arch = "ok" /\ args.env.fail = "none"

C10_TraceOnEveryCall ==
    (Returned /\ ResolvableRule /\ MemoryWorking) =>
        /\ Len(ret.writes) >= 1
        /\ ret.writes[1].kind = "decision_trace"
        /\ ret.writes[1].rule_id = RuleObj(args.semantics).data["id"]
        /\ "register_use" \in RuleObj(args.semantics).methods
           => (ret.uses = 1 /\ Len(ret.writes) = 2 /\ ret.writes[2].kind = "rule")

(***************************************************************************)
(* The decision recorder's failures.                                       *)
(***************************************************************************)
\* The semantics with no rule attached.
WithoutRule(semantics) ==
    [k \in DOMAIN semantics \ {"rule", "interaction_rule"} |-> semantics[k]]

\* Something on the recording path of this call fails: an operation raises, or the
\* architecture or its memory store is missing.
RecorderFails(a) ==
    /\ RulePresent(a.semantics)
    /\ a.env.fail # "none" \/ a.env.arch # "ok"

\* C11: whatever fails inside the decision-recording path, the call raises nothing,
\* returns the text it would return with no rule attached, and leaves the cooldown
\* levels and the last-used texts as the ornament decision set them.
C11_RecorderFailureAbsorbed ==
    [][(pc = "called" /\ pc' = "returned" /\ RecorderFails(args)) =>
        LET bare == Render(_cooldown, _last_used,
                           [args EXCEPT !.semantics = WithoutRule(args.semantics)])
        IN  /\ ~ret'.raised
            /\ ret'.out = bare.out
            /\ _cooldown' = bare.cooldown
            /\ _last_used' = bare.last_used]_vars

\* A call whose trace write raised after a collocation was appended: nothing was
\* written, nothing raised, and the collocation's level stands at 2.0.
C11_Witness ==
    /\ Returned
    /\ ResolvableRule
    /\ args.env.arch = "ok" /\ args.env.fail = "add_memory"
    /\ Emits("colloc")
    /\ _cooldown["colloc"] = CooldownSet
    /\ ret.writes = << >>
    /\ ~ret.raised

(***************************************************************************)
(* The confidence fallback.                                                *)
(***************************************************************************)
\* The policy is out of reach: no self model or architecture behind the voice, no
\* policy on the architecture, a policy with no confidence operation, or one whose
\* confidence operation raises.
PolicyUnreachable(a) == a.env.arch = "none" \/ a.policy.kind # "ok"

\* C12: when the policy is out of reach the call raises nothing and decides as it
\* does at confidence 0.6 exactly: it is not short-circuited on confidence, so
\* unless the budget or the length preference closes the gate, an eligible and
\* fitting past link is appended, and otherwise a collocation that is eligible at
\* the attempt probability of confidence 0.6 and fits.
C12_ConfidenceFallback ==
    [][(pc = "called" /\ pc' = "returned" /\ PolicyUnreachable(args)) =>
        LET cd == _decrease_cooldowns(_cooldown)
            past_ok == /\ UsePast(PastPick, cd, _last_used, IsDirectQuestion(args.ctx))
                       /\ Fits(PastSnippet(PastPick.txt), Budget)
            colloc_ok == /\ UseColloc(CollocPick, args.draw, DefaultConfidence, cd,
                                      _last_used)
                         /\ Fits(CollocSnippet(CollocPick.txt), Budget)
        IN  /\ ~ret'.raised
            /\ (Budget >= BudgetFloor /\ ~PrefersLongIsFalse(args.ctx)) =>
                  /\ Emits("past")' <=> past_ok
                  /\ Emits("colloc")' <=> (~past_ok /\ colloc_ok)]_vars

\* A collocation appended by a call whose policy was out of reach, on a draw that
\* passes at confidence 0.6 and at no lower confidence.
C12_Witness ==
    /\ Returned
    /\ PolicyUnreachable(args)
    /\ Emits("colloc")
    /\ args.draw < PTry(DefaultConfidence)
    /\ args.draw >= PTry(DefaultConfidence - 1)
    /\ ~ret.raised

(***************************************************************************)
(* The ledger's frame.                                                     *)
(***************************************************************************)
\* C13: for each kind, a call that appends no ornament of that kind leaves its
\* last-used text as it was and its level one decay step lower (not below 0); no
\* call empties a last-used text or brings a level below where decay brings it;
\* and nothing but a call touches the ledger.
C13_LedgerFrame ==
    [][\A k \in Kinds :
        IF pc = "called" /\ pc' = "returned"
        THEN /\ ~Emits(k)' =>
                  /\ _last_used'[k] = _last_used[k]
                  /\ _cooldown'[k] = Max(0, _cooldown[k] - CooldownStep)
             /\ _last_used[k] # EmptyStr => _last_used'[k] # EmptyStr
             /\ _cooldown'[k] >= Max(0, _cooldown[k] - CooldownStep)
        ELSE /\ _last_used'[k] = _last_used[k]
             /\ _cooldown'[k] = _cooldown[k]]_vars

\* A collocation appended while a past link stands in the ledger: the past text
\* is the one emitted before and its level is cooling.
C13_Witness ==
    /\ Returned
    /\ Emits("colloc")
    /\ ~Emits("past")
    /\ ret.before["past"] # EmptyStr
    /\ _last_used["past"] = ret.before["past"]
    /\ _cooldown["past"] > 0
    /\ _cooldown["past"] < CooldownSet
    /\ _cooldown["colloc"] = CooldownSet

(***************************************************************************)
(* The range of the levels.                                                *)
(***************************************************************************)
\* C14: every level is between 0 and 2.0 in every state, and a call appends an
\* ornament of a kind only when the kind's level, after the call's decay step, is
\* exactly 0.
C14_LevelRange ==
    [][\A k \in Kinds :
        /\ _cooldown[k] >= 0 /\ _cooldown[k] <= CooldownSet
        /\ _cooldown'[k] >= 0 /\ _cooldown'[k] <= CooldownSet
        /\ (pc = "called" /\ pc' = "returned" /\ Emits(k)') =>
              /\ Max(0, _cooldown[k] - CooldownStep) = 0
              /\ _cooldown[k] <= CooldownStep]_vars

\* A collocation appended after an earlier one has cooled down to 0, while the
\* past level is strictly between 0 and 2.0.
C14_Witness ==
    /\ Returned
    /\ Emits("colloc")
    /\ ret.before["colloc"] # EmptyStr
    /\ trail["colloc"] = <<CooldownSet>>
    /\ _cooldown["past"] > 0
    /\ _cooldown["past"] < CooldownSet

(***************************************************************************)
(* Unserialized calls.                                                     *)
(***************************************************************************)
\* A thread's call has appended a past link.
LinkedPast(t) == calls[t].pc = "done" /\ OrnamentOf(calls[t], "past") # EmptyStr

\* A call has appended the past text that was the last one emitted.
RepeatedPast == \E t \in Threads : LinkedPast(t) /\ calls[t].repeated

\* A call has appended a past link fewer than 5 returned calls after the last one.
UnspacedPast == \E t \in Threads : LinkedPast(t) /\ calls[t].unspaced

\* C15: as long as no two calls have been in progress at once, no call repeats the
\* past text emitted last and no past link comes fewer than 5 calls after the one
\* before; calls in progress at once reach the state of the witness.
C15_SerializedCallsKeepGuarantees == ~raced => (~RepeatedPast /\ ~UnspacedPast)

\* Two calls in progress at once have each appended a past link with the same
\* text, the second with no call between them.
C15_Witness ==
    /\ raced
    /\ \A t \in Threads : LinkedPast(t)
    /\ \A t, u \in Threads : OrnamentOf(calls[t], "past") = OrnamentOf(calls[u], "past")
    /\ RepeatedPast
    /\ UnspacedPast

(***************************************************************************)
(* The length preference left unstated.                                    *)
(***************************************************************************)
\* ctx has no user_style, or a user_style with no prefers_long.
NoLengthPreference(ctx) == "prefers_long" \notin DOMAIN UserStyle(ctx)

\* C16: a call with no length preference stated and a confidence of 0.55 or more
\* is not short-circuited: its past candidate, when relevant, off cooldown after
\* the decay, different from the last past text used, fitting the budget and not
\* facing a "?" in last_message, is appended to the decorated base.
C16_UnstatedPreferenceNoVeto ==
    [][(/\ pc = "called" /\ pc' = "returned"
        /\ NoLengthPreference(args.ctx)
        /\ Conf >= ConfMin
        /\ PastPick.txt # EmptyStr
        /\ FracGE100(PastPick.score, PastRelevance)
        /\ Max(0, _cooldown["past"] - CooldownStep) = 0
        /\ PastPick.txt # _last_used["past"]
        /\ Len(PastSnippet(PastPick.txt)) <= Budget
        /\ ~Contains(LastMessage(args.ctx), "?"))
       => /\ Emits("past")'
          /\ ret'.out = Plain \o PastSnippet(PastPick.txt)
          /\ ret'.out # Plain]_vars

\* A past link appended by a call whose user_style is there and says nothing of
\* the length, at the budget of 160 that goes with it.
C16_Witness ==
    /\ Returned
    /\ "user_style" \in DOMAIN args.ctx
    /\ NoLengthPreference(args.ctx)
    /\ Budget = BudgetBase
    /\ Emits("past")
    /\ ret.out = Plain \o PastSnippet(PastPick.txt)

(***************************************************************************)
(* The choice of the past moment.                                          *)
(***************************************************************************)
\* The positions of the call's key_moments that are among the last 8.
Window ==
    {i \in 1..Len(KeyMoments(args.ctx)) : i > Len(KeyMoments(args.ctx)) - MomentWindow}

\* The score of the entry at position i against the call's message.
ScoreAt(i) == Jaccard(Tokens(LastMessage(args.ctx)), Tokens(KeyMoments(args.ctx)[i]))

\* The positions of the window whose score is above 0.
Scoring == {i \in Window : ScoreAt(i).num > 0}

\* The first of the positions with the highest score.
FirstBest ==
    CHOOSE i \in Scoring :
        \A j \in Scoring : /\ ~FracGT(ScoreAt(j), ScoreAt(i))
                           /\ j < i => FracGT(ScoreAt(i), ScoreAt(j))

\* C17: the past candidate of a call is, among the last 8 entries of key_moments,
\* the first of those with the highest score above 0, with that score; it is the
\* empty text with score 0 when no entry of the window scores above 0 or there is
\* no key_moments.
C17_PickFirstBestOfLastEight ==
    pc \in {"called", "returned"} =>
        IF Scoring = {}
        THEN PastPick = [txt |-> EmptyStr, score |-> Zero]
        ELSE PastPick = [txt |-> KeyMoments(args.ctx)[FirstBest],
                         score |-> ScoreAt(FirstBest)]

\* A list longer than the window whose first entry scores 1 and whose window holds
\* two entries tied at 1/3: the candidate is the first of the two.
C17_Witness ==
    /\ Returned
    /\ Len(KeyMoments(args.ctx)) > MomentWindow
    /\ KeyMoments(args.ctx)[1] = MomentMove
    /\ \E i \in Window : \E j \in Window :
          /\ i < j
          /\ KeyMoments(args.ctx)[i] = MomentNow
          /\ KeyMoments(args.ctx)[j] = MomentNowBack
    /\ PastPick.txt = MomentNow
    /\ PastPick.score = Frac(1, 3)
    /\ ~FracGT(Frac(1, 1), ScoreAt(1))

(***************************************************************************)
(* From the past link to the collocation.                                  *)
(***************************************************************************)
\* C18: in a call that passes the gate and whose past candidate is ineligible, or
\* eligible with a snippet longer than the budget, the past level only decays and
\* the past text used last stays; the collocation is then considered: relevant,
\* drawn, off cooldown after the decay, new and fitting, it is appended to the
\* decorated base, its level set to 2.0 and its text recorded; otherwise the
\* decorated base is returned as it is and the collocation's ledger only decays.
C18_FallThroughToCollocation ==
    [][LET level(k) == Max(0, _cooldown[k] - CooldownStep)
           past_eligible == /\ PastPick.txt # EmptyStr
                            /\ FracGE100(PastPick.score, PastRelevance)
                            /\ level("past") = 0
                            /\ PastPick.txt # _last_used["past"]
                            /\ ~Contains(LastMessage(args.ctx), "?")
           past_fits == Len(PastSnippet(PastPick.txt)) <= Budget
           colloc_eligible == /\ CollocPick.txt # EmptyStr
                              /\ args.draw < PTry(Conf)
                              /\ FracGE100(CollocPick.score, CollocRelevance)
                              /\ level("colloc") = 0
                              /\ CollocPick.txt # _last_used["colloc"]
           colloc_fits == Len(CollocSnippet(CollocPick.txt)) <= Budget
       IN  (/\ pc = "called" /\ pc' = "returned"
            /\ ~GateClosed(Conf, Budget, args.ctx)
            /\ ~(past_eligible /\ past_fits))
           => /\ _cooldown'["past"] = level("past")
              /\ _last_used'["past"] = _last_used["past"]
              /\ IF colloc_eligible /\ colloc_fits
                 THEN /\ ret'.out = Plain \o CollocSnippet(CollocPick.txt)
                      /\ _cooldown'["colloc"] = CooldownSet
                      /\ _last_used'["colloc"] = CollocPick.txt
                 ELSE /\ ret'.out = Plain
                      /\ _cooldown'["colloc"] = level("colloc")
                      /\ _last_used'["colloc"] = _last_used["colloc"]]_vars

\* A call whose past candidate was eligible with a snippet longer than the budget:
\* the collocation was appended and the past ledger left at its fresh values.
C18_Witness ==
    /\ Returned
    /\ PastPick.txt # EmptyStr
    /\ FracGE100(PastPick.score, PastRelevance)
    /\ ~IsDirectQuestion(args.ctx)
    /\ Len(PastSnippet(PastPick.txt)) > Budget
    /\ _cooldown["past"] = 0
    /\ _last_used["past"] = EmptyStr
    /\ ret.out = Plain \o CollocSnippet(CollocPick.txt)
    /\ _cooldown["colloc"] = CooldownSet
    /\ _last_used["colloc"] = CollocPick.txt

(***************************************************************************)
(* The values of the budget.                                               *)
(***************************************************************************)
\* C19: the budget of a call is 100, 160, 180 or 240: it is the base with its
\* bonus and penalty before any clamping, it is never below 60, and a call is
\* short-circuited exactly when its confidence is below 0.55 or prefers_long is
\* False.
C19_BudgetValues ==
    pc \in {"called", "returned"} =>
        LET unclamped ==
                BudgetBase
                + (IF PrefersLongTruthy(args.ctx) THEN BudgetLongBonus ELSE 0)
                - (IF Get(args.style, "conciseness", DefaultConciseness) > ConciseAbove
                   THEN BudgetConcisePenalty ELSE 0)
        IN  /\ Budget \in {100, 160, 180, 240}
            /\ Budget >= BudgetFloor
            /\ unclamped >= 0
            /\ Budget = unclamped
            /\ GateClosed(Conf, Budget, args.ctx)
                  <=> (Conf < ConfMin \/ PrefersLongIsFalse(args.ctx))
            /\ (pc = "returned" /\ Conf >= ConfMin /\ ~PrefersLongIsFalse(args.ctx)
                /\ PastPick.txt # EmptyStr
                /\ FracGE100(PastPick.score, PastRelevance)
                /\ ret.before["past"] = EmptyStr
                /\ ~IsDirectQuestion(args.ctx)
                /\ Len(PastSnippet(PastPick.txt)) <= 100)
               => Emits("past")

\* A call at the lowest budget, 100, that went through the gate: its past snippet
\* was longer than 100 and its collocation was appended.
C19_Witness ==
    /\ Returned
    /\ ~PrefersLongTruthy(args.ctx)
    /\ Get(args.style, "conciseness", DefaultConciseness) > ConciseAbove
    /\ Budget = 100
    /\ ~GateClosed(Conf, Budget, args.ctx)
    /\ Len(PastSnippet(PastPick.txt)) > 100
    /\ Emits("colloc")
    /\ Len(ret.out) > Len(Plain)

(***************************************************************************)
(* The text used last is never forgotten.                                  *)
(***************************************************************************)
\* The candidate of the call for a kind.
Candidate(k) == IF k = "past" THEN PastPick.txt ELSE CollocPick.txt

\* C20: for each kind the ledger's last-used text is, in every state, the text of
\* the last ornament of that kind emitted, however long ago and whatever the
\* level; a call whose candidate is that text emits no ornament of the kind and
\* leaves the text in place, so the text comes again only after a call has emitted
\* a different one.
C20_LastUsedNeverForgotten ==
    [][\A k \in Kinds :
        /\ _last_used[k] = emitted[k]
        /\ _last_used'[k] = emitted'[k]
        /\ (pc = "called" /\ pc' = "returned") =>
              /\ Candidate(k) = emitted[k] =>
                    /\ OrnamentOf(ret', k) = EmptyStr
                    /\ _last_used'[k] = _last_used[k]
              /\ OrnamentOf(ret', k) # EmptyStr =>
                    /\ OrnamentOf(ret', k) = Candidate(k)
                    /\ Candidate(k) # emitted[k]
        /\ ~(pc = "called" /\ pc' = "returned") => emitted'[k] = emitted[k]]_vars

\* The past text emitted last is the candidate again as many calls later as the
\* trail records, with the level at 0, the gate open, no question and the snippet
\* fitting: no past link is appended and the text stays in the ledger.
C20_Witness ==
    /\ Returned
    /\ Len(trail["past"]) = MaxTrail
    /\ trail["past"][1] = CooldownSet
    /\ _cooldown["past"] = 0
    /\ PastPick.txt # EmptyStr
    /\ PastPick.txt = emitted["past"]
    /\ _last_used["past"] = PastPick.txt
    /\ FracGE100(PastPick.score, PastRelevance)
    /\ ~GateClosed(Conf, Budget, args.ctx)
    /\ ~IsDirectQuestion(args.ctx)
    /\ Len(PastSnippet(PastPick.txt)) <= Budget
    /\ ~Emits("past")

====
